---- MODULE Spec2Model ----
(***************************************************************************)
(* Genetic-algorithm optimizer of src/algorithm.py: the Population class   *)
(* (initialisation, roulette-wheel selection, single-point crossover,      *)
(* bit-flip mutation, elitist replacement) and the driver loop of run().   *)
(*                                                                         *)
(* Numbers.  Python floats are modelled exactly on a small grid:           *)
(*   - a mean-squared error is one of MseValues (0, 1, 10);                *)
(*   - a fitness 1/mse is kept as the integer FitScale/mse, and 1/0.0      *)
(*     (numpy: inf, with a warning) as Infinity, larger than any finite    *)
(*     sum; inf + x = inf, and x/inf, inf/inf (0.0, nan) never exceed a    *)
(*     draw in [0,1);                                                      *)
(*   - a random.random() draw is n/RandDen with n in 0..RandDen-1.         *)
(* Indices are Python's (0-based); sequences are TLA+'s (1-based), so the  *)
(* Python element s[i] is s[i+1] here.                                     *)
(***************************************************************************)
EXTENDS Integers, Sequences, FiniteSets, TLC

VARIABLES
    mseOf,               \* the (x, y, adjacency_matrix) context: chromosome -> mse of its fit
    individuals,         \* Population.individuals
    sorted_individuals,  \* run_single_iteration: local
    total_fitness,       \* run_single_iteration: local
    children,            \* run_single_iteration: local, the offspring chromosomes so far
    individual1_index,   \* run_single_iteration: local, -1 while unassigned
    individual2_index,   \* run_single_iteration: local, -1 while unassigned
    chromosome1,         \* run_single_iteration: local, <<>> while unassigned
    chromosome2,         \* run_single_iteration: local, <<>> while unassigned
    fittest_individual,  \* run: local, <<>> stands for None
    counter,             \* run: local
    best_fitness,        \* run: local
    best_index,          \* run: local
    errors,              \* run: local
    pc,                  \* where run() is: "loop", "select", "done", "fault", "ops"
    op,                  \* operator harness: the operator last applied
    opArgs,              \* operator harness: its arguments
    opResult             \* operator harness: its result

popVars == <<mseOf, individuals, sorted_individuals, total_fitness, children,
             individual1_index, individual2_index, chromosome1, chromosome2>>
runVars == <<fittest_individual, counter, best_fitness, best_index, errors, pc>>
opVars == <<op, opArgs, opResult>>
vars == <<popVars, runVars, opVars>>

---------------------------------------------------------------------------
(* Sizes.  The program's values are in the comments; the model runs the   *)
(* same code on smaller ones.                                              *)

NUMBER_OF_NODES == 3          \* src/algorithm.py:22 has 10
TIME_FRAMES == 2              \* src/algorithm.py:24 has 20
CHROMOSOME_SIZE == 3          \* src/algorithm.py:25
GENE_SIZE == 1                \* src/algorithm.py:26 has 12
POPULATION == 3               \* src/algorithm.py:28 has 100
CHILDREN == 1                 \* src/algorithm.py:29 has 10
TERMINATION_CONDITION == 2    \* src/algorithm.py:30 has 1000
MUTATION_CHANCE == [num |-> 1, den |-> 10]   \* src/algorithm.py:27, 0.1

MaxGenerations == 5           \* cap on counter; the fitness values of MseValues end every run by then
RandDen == 20                 \* a draw of random.random() is n/RandDen
MaxListLen == 3               \* operator harness: longest list handed to selection
WideGeneSize == 3             \* operator harness: bits per gene handed to decoding
ReplaceLen == 2               \* operator harness: individuals, and children, handed to replacement
ExtraRows == 1                \* operator harness: rows of x and y beyond TIME_FRAMES

ChromosomeLength == CHROMOSOME_SIZE * GENE_SIZE
Bit == {0, 1}
Chromosomes == [1..ChromosomeLength -> Bit]

RECURSIVE Pow2(_)
Pow2(n) == IF n = 0 THEN 1 ELSE 2 * Pow2(n - 1)

---------------------------------------------------------------------------
(* Floats *)

MseValues == {0, 1, 10}
FitScale == 10
Infinity == 1000000

\* 1 / mse
Reciprocal(mse) == IF mse = 0 THEN Infinity ELSE FitScale \div mse

\* a + b
FAdd(a, b) == IF a = Infinity \/ b = Infinity THEN Infinity ELSE a + b

\* sum_fitness / total_fitness > random_value, random_value = r / RandDen
FractionExceeds(sum_f, total_f, r) ==
    IF total_f = Infinity
    THEN FALSE
    ELSE sum_f * RandDen > r * total_f

\* <= for <
DrawBelowOrAt(r, chance) == r * chance.den <= chance.num * RandDen

\* random.random() < chance, the draw being r / RandDen
DrawBelow(r, chance) == r * chance.den < chance.num * RandDen

\* math.log10 on the positive values of MseValues
RECURSIVE Log10(_)
Log10(m) == IF m = 1 THEN 0 ELSE 1 + Log10(m \div 10)

---------------------------------------------------------------------------
(* _get_complete_individual *)

POWER_RANGE == <<0, 2>>

\* the inner loop with the weights of the bits reversed
RECURSIVE GeneBinaryLsbFirst(_, _, _, _)
GeneBinaryLsbFirst(chromosome, i, j, gene_size) ==
    IF j = gene_size
    THEN 0
    ELSE chromosome[i * gene_size + j + 1] * Pow2(j)
         + GeneBinaryLsbFirst(chromosome, i, j + 1, gene_size)

\* binary of gene i (0-based) of genes gene_size bits wide, from bit j on:
\* binary += chromosome[i * GENE_SIZE + j] * 2 ** (GENE_SIZE - j - 1)
RECURSIVE GeneBinaryOf(_, _, _, _)
GeneBinaryOf(chromosome, i, j, gene_size) ==
    IF j = gene_size
    THEN 0
    ELSE chromosome[i * gene_size + j + 1] * Pow2(gene_size - j - 1)
         + GeneBinaryOf(chromosome, i, j + 1, gene_size)

GeneBinary(chromosome, i, j) == GeneBinaryOf(chromosome, i, j, GENE_SIZE)

\* STEP taken over 2 ** (GENE_SIZE - 1)
PowersWideStep(chromosome, gene_size) ==
    [i \in 1..CHROMOSOME_SIZE |->
        POWER_RANGE[1] * Pow2(gene_size)
        + GeneBinaryOf(chromosome, i - 1, 0, gene_size)
              * 2 * (POWER_RANGE[2] - POWER_RANGE[1])]

\* powers, each as the numerator of a fraction over 2 ** GENE_SIZE:
\* POWER_RANGE[0] + binary * STEP, STEP = (POWER_RANGE[1] - POWER_RANGE[0]) / 2 ** GENE_SIZE
\* (STEP is a power of two, so the floating-point product and sum are exact)
PowersOf(chromosome, gene_size) ==
    [i \in 1..CHROMOSOME_SIZE |->
        POWER_RANGE[1] * Pow2(gene_size)
        + GeneBinaryOf(chromosome, i - 1, 0, gene_size)
              * (POWER_RANGE[2] - POWER_RANGE[1])]

Powers(chromosome) == PowersOf(chromosome, GENE_SIZE)

\* The least-squares fit itself is not computed.  Its mean-squared error is a
\* function of the chromosome that the data fix; the data are taken from a
\* small family: they were generated with the exponents of chromosome t, a
\* chromosome that differs from t in d genes fits with error MseAtDistance(d),
\* and t itself fits exactly (mse 0) when exact.
Distance(c, t) == Cardinality({k \in 1..ChromosomeLength : c[k] # t[k]})
MseAtDistance(d, exact) ==
    IF d = 0 THEN (IF exact THEN 0 ELSE 1) ELSE IF d = 1 THEN 1 ELSE 10
Targets == {[k \in 1..ChromosomeLength |-> 1], [k \in 1..ChromosomeLength |-> k % 2]}
DataContexts ==
    {[c \in Chromosomes |-> MseAtDistance(Distance(c, t), exact)] :
        t \in Targets, exact \in BOOLEAN}

CompleteIndividual(table, chromosome) ==
    [chromosome |-> chromosome,
     powers |-> Powers(chromosome),
     mse |-> table[chromosome],
     fitness |-> Reciprocal(table[chromosome])]

\* Population._get_complete_individuals
CompleteIndividuals(table, chromosomes) ==
    [k \in 1..Len(chromosomes) |-> CompleteIndividual(table, chromosomes[k])]

---------------------------------------------------------------------------
(* Population's operators *)

\* the parents swapped
CrossoverSwapped(c1, c2, point) ==
    SubSeq(c2, 1, point) \o SubSeq(c1, point + 1, Len(c1))

\* Population._crossover with crossover_point = point
Crossover(c1, c2, point) ==
    SubSeq(c1, 1, point) \o SubSeq(c2, point + 1, Len(c2))

\* Population._mutation; draws[k] is the draw taken for bit k, chance is MUTATION_CHANCE
Mutation(chromosome, draws, chance) ==
    [k \in 1..ChromosomeLength |->
        IF DrawBelow(draws[k], chance)
        THEN (IF chromosome[k] # 0 THEN 0 ELSE 1)
        ELSE chromosome[k]]

\* the for loop of Population._select_random_individual, at its iteration i
RECURSIVE SelectLoop(_, _, _, _, _, _)
SelectLoop(s, total_f, r, i, selected_index, sum_f) ==
    IF i >= Len(s)
    THEN selected_index
    ELSE IF FractionExceeds(sum_f, total_f, r)
         THEN selected_index
         ELSE SelectLoop(s, total_f, r, i + 1, i, FAdd(sum_f, s[i + 1].fitness))

\* Population._select_random_individual with random_value = r / RandDen
SelectRandomIndividual(s, total_f, r) ==
    SelectLoop(s, total_f, r, 1, 0, s[1].fitness)

\* sum([individual['fitness'] for individual in s])
RECURSIVE SumFitness(_)
SumFitness(s) ==
    IF s = <<>> THEN 0 ELSE FAdd(SumFitness(SubSeq(s, 1, Len(s) - 1)), s[Len(s)].fitness)

\* equally fit elements in reverse order
SortedPlaceTiesReversed(s, i) ==
    1 + Cardinality({j \in 1..Len(s) :
            \/ s[j].fitness > s[i].fitness
            \/ (s[j].fitness = s[i].fitness /\ j > i)})

\* the place (1-based) a stable sort by descending fitness gives element i of s:
\* behind every fitter element, and behind the equally fit ones that precede it
SortedPlace(s, i) ==
    1 + Cardinality({j \in 1..Len(s) :
            \/ s[j].fitness > s[i].fitness
            \/ (s[j].fitness = s[i].fitness /\ j < i)})

\* the list left as it is
NotSorted(s) == s

\* sorted(s, key=lambda individual: -1 * individual['fitness']): stable
SortedByFitness(s) ==
    [p \in 1..Len(s) |-> s[CHOOSE i \in 1..Len(s) : SortedPlace(s, i) = p]]

\* new_individuals[-self.size:]
TruncateTail(s, size) == SubSeq(s, IF Len(s) < size THEN 1 ELSE Len(s) - size + 1, Len(s))

\* no truncation
TruncateNone(s, size) == s

\* new_individuals[:self.size]
Truncate(s, size) == SubSeq(s, 1, IF Len(s) < size THEN Len(s) ELSE size)

\* the test dropped
AnyParents(i1, i2) == TRUE

\* individual1_index != individual2_index
DistinctParents(i1, i2) == i1 # i2

\* <= for <
NeedsChildrenOrAt(c) == Len(c) <= CHILDREN

\* len(children) < CHILDREN
NeedsChildren(c) == Len(c) < CHILDREN

\* while True
KeepsRunningAlways(cnt, best) == TRUE

\* <= for <
KeepsRunningOrAt(cnt, best) == cnt - best <= TERMINATION_CONDITION

\* counter - best_index < TERMINATION_CONDITION
KeepsRunning(cnt, best) == cnt - best < TERMINATION_CONDITION

---------------------------------------------------------------------------
(* The run *)

\* the chromosomes random.randint may give the initial individuals (a sample)
InitialChromosomes ==
    {c \in Chromosomes : c[1] = 1} \cup {[k \in 1..ChromosomeLength |-> 0]}

SelectDraws == {0, RandDen \div 2, RandDen - 1}
MutationDraws == {0, RandDen - 1}

\* Population.__init__ and the locals of run() before its loop
Init ==
    /\ mseOf \in DataContexts
    /\ \E initial \in [1..POPULATION -> InitialChromosomes] :
           individuals = CompleteIndividuals(mseOf, initial)
    /\ sorted_individuals = <<>>
    /\ total_fitness = 0
    /\ children = <<>>
    /\ individual1_index = -1
    /\ individual2_index = -1
    /\ chromosome1 = <<>>
    /\ chromosome2 = <<>>
    /\ fittest_individual = <<>>
    /\ counter = 0
    /\ best_fitness = 0
    /\ best_index = 0
    /\ errors = <<>>
    /\ pc = "loop"
    /\ op = "none"
    /\ opArgs = <<>>
    /\ opResult = <<>>

\* run(): the loop test passes, counter += 1, and run_single_iteration starts
BeginIteration ==
    /\ pc = "loop"
    /\ KeepsRunning(counter, best_index)
    /\ counter < MaxGenerations
    /\ counter' = counter + 1
    /\ sorted_individuals' = SortedByFitness(individuals)
    /\ total_fitness' = SumFitness(individuals)
    /\ children' = <<>>
    /\ pc' = "select"
    /\ UNCHANGED <<mseOf, individuals, individual1_index, individual2_index,
                   chromosome1, chromosome2>>
    /\ UNCHANGED <<fittest_individual, best_fitness, best_index, errors>>
    /\ UNCHANGED opVars

\* one pass of the while loop of run_single_iteration, its two draws being
\* r1 / RandDen and r2 / RandDen
SelectParentsWith(r1, r2) ==
    /\ pc = "select"
    /\ NeedsChildren(children)
    /\ \E i1 \in {SelectRandomIndividual(sorted_individuals, total_fitness, r1)},
          i2 \in {SelectRandomIndividual(sorted_individuals, total_fitness, r2)} :
          /\ individual1_index' = i1
          /\ individual2_index' = i2
          /\ IF DistinctParents(i1, i2)
             THEN LET c1 == individuals[i1 + 1].chromosome
                      c2 == individuals[i2 + 1].chromosome
                  IN /\ chromosome1' = c1
                     /\ chromosome2' = c2
                     /\ \E point \in 0..(ChromosomeLength - 1),
                           draws \in [1..ChromosomeLength -> MutationDraws] :
                            children' = Append(children,
                                Mutation(Crossover(c1, c2, point), draws, MUTATION_CHANCE))
             ELSE UNCHANGED <<chromosome1, chromosome2, children>>
    /\ UNCHANGED <<mseOf, individuals, sorted_individuals, total_fitness>>
    /\ UNCHANGED runVars
    /\ UNCHANGED opVars

SelectParents == \E r1 \in SelectDraws, r2 \in SelectDraws : SelectParentsWith(r1, r2)

\* the rest of run_single_iteration, and the rest of the loop body of run()
FinishIteration ==
    /\ pc = "select"
    /\ ~NeedsChildren(children)
    /\ \E new_individuals \in
              {SortedByFitness(individuals \o CompleteIndividuals(mseOf, children))} :
       \E kept \in {Truncate(new_individuals, POPULATION)} :
       LET fittest == kept[1]
       IN /\ individuals' = kept
          /\ fittest_individual' = fittest
          /\ IF fittest.mse = 0
             THEN \* math.log10(0.0) raises ValueError
                  /\ pc' = "fault"
                  /\ UNCHANGED <<errors, best_fitness, best_index>>
             ELSE /\ errors' = Append(errors, Log10(fittest.mse))
                  /\ IF fittest.fitness > best_fitness
                     THEN /\ best_fitness' = fittest.fitness
                          /\ best_index' = counter
                     ELSE UNCHANGED <<best_fitness, best_index>>
                  /\ pc' = "loop"
    \* the locals of run_single_iteration end with the call
    /\ sorted_individuals' = <<>>
    /\ total_fitness' = 0
    /\ children' = <<>>
    /\ individual1_index' = -1
    /\ individual2_index' = -1
    /\ chromosome1' = <<>>
    /\ chromosome2' = <<>>
    /\ UNCHANGED <<mseOf, counter>>
    /\ UNCHANGED opVars

\* run(): the loop test fails and the result is reported
Terminate ==
    /\ pc = "loop"
    /\ ~KeepsRunning(counter, best_index)
    /\ pc' = "done"
    /\ UNCHANGED popVars
    /\ UNCHANGED <<fittest_individual, counter, best_fitness, best_index, errors>>
    /\ UNCHANGED opVars

---------------------------------------------------------------------------
(* The operators on their own: each is applied to arguments drawn from     *)
(* bounded sets, and the result is kept beside them.                       *)

FitnessValues == {Reciprocal(m) : m \in MseValues}

\* the lists selection can be handed: non-empty, in descending fitness order
SortedLists ==
    {s \in UNION {[1..n -> [fitness : FitnessValues]] : n \in 1..MaxListLen} :
        \A k \in 1..(Len(s) - 1) : s[k].fitness >= s[k + 1].fitness}

Chances == {[num |-> 0, den |-> 1], MUTATION_CHANCE, [num |-> 1, den |-> 1]}
BitDraws == {0, 1, RandDen \div 2, RandDen - 1}

---------------------------------------------------------------------------
(* _get_theta and the stacking of the targets.  Matrices are sequences of  *)
(* rows; nodes and samples are numbered from 1.                            *)

RECURSIVE IntPow(_, _)
IntPow(x, e) == IF e = 0 THEN 1 ELSE x * IntPow(x, e - 1)

\* x ** power, the power being a numerator over 2 ** GENE_SIZE; with one bit
\* to a gene every power is a whole number
Raise(x, power) == IntPow(x, power \div Pow2(GENE_SIZE))

RECURSIVE SumOver(_, _)
SumOver(set, f) ==
    IF set = {} THEN 0
    ELSE LET j == CHOOSE k \in set : TRUE IN f[j] + SumOver(set \ {j}, f)

\* the j that add a term for node_index:
\* j != node_index and adjacency_matrix[j, node_index]
TermNodes(adjacency_matrix, node_index) ==
    {j \in 1..NUMBER_OF_NODES : j # node_index /\ adjacency_matrix[j][node_index] # 0}

\* np.sum(terms, axis=0) at sample t
CouplingAt(x, adjacency_matrix, powers, node_index, t) ==
    SumOver(TermNodes(adjacency_matrix, node_index),
            [j \in 1..NUMBER_OF_NODES |->
                adjacency_matrix[j][node_index] * Raise(x[t][node_index], powers[2])
                    * Raise(x[t][j], powers[3])])

\* theta of one node: np.column_stack(column_list), TIME_FRAMES rows of two
\* columns, or of three if terms is not empty
ThetaBlock(x, adjacency_matrix, powers, node_index) ==
    [t \in 1..TIME_FRAMES |->
        IF TermNodes(adjacency_matrix, node_index) = {}
        THEN <<1, Raise(x[t][node_index], powers[1])>>
        ELSE <<1, Raise(x[t][node_index], powers[1]),
               CouplingAt(x, adjacency_matrix, powers, node_index, t)>>]

ThetaList(x, adjacency_matrix, powers) ==
    [node_index \in 1..NUMBER_OF_NODES |->
        ThetaBlock(x, adjacency_matrix, powers, node_index)]

RECURSIVE Concatenate(_)
Concatenate(arrays) ==
    IF arrays = <<>> THEN <<>> ELSE Head(arrays) \o Concatenate(Tail(arrays))

\* np.concatenate(theta_list): raises ValueError unless the blocks have the
\* same number of columns
GetTheta(x, adjacency_matrix, powers) ==
    LET theta_list == ThetaList(x, adjacency_matrix, powers)
    IN  IF \E a, b \in 1..NUMBER_OF_NODES :
               Len(theta_list[a][1]) # Len(theta_list[b][1])
        THEN [raised |-> "ValueError", theta |-> <<>>]
        ELSE [raised |-> "nothing", theta |-> Concatenate(theta_list)]

\* np.concatenate([y[:, node_index] for node_index in range(NUMBER_OF_NODES)]):
\* every row of y
StackedY(y) ==
    Concatenate([node_index \in 1..NUMBER_OF_NODES |->
                    [t \in 1..Len(y) |-> y[t][node_index]]])

\* lines 67-69: the design matrix, the targets, the fit; np.linalg.lstsq raises
\* LinAlgError when the two differ in their number of rows.  The fit itself is
\* not computed.
Evaluate(x, y, adjacency_matrix, powers) ==
    LET got == GetTheta(x, adjacency_matrix, powers)
    IN  IF got.raised = "ValueError"
        THEN [theta_list |-> ThetaList(x, adjacency_matrix, powers),
              theta |-> <<>>, stacked_y |-> <<>>, outcome |-> "ValueError"]
        ELSE [theta_list |-> ThetaList(x, adjacency_matrix, powers),
              theta |-> got.theta, stacked_y |-> StackedY(y),
              outcome |-> IF Len(got.theta) = Len(StackedY(y)) THEN "fitted"
                          ELSE "LinAlgError"]

\* the data handed to the evaluation: trajectories of `rows` samples
Weights == {0, 2}
AdjacencyMatrices == [1..NUMBER_OF_NODES -> [1..NUMBER_OF_NODES -> Weights]]
XOfRows(rows) == [t \in 1..rows |-> [n \in 1..NUMBER_OF_NODES |-> 1 + ((t + n) % 3)]]
YOfRows(rows) == [t \in 1..rows |-> [n \in 1..NUMBER_OF_NODES |-> 10 * n + t]]

\* The list objects of Python.  A heap is the sequence of the lists allocated so
\* far, a reference is an index into it; an operation returns the heap it
\* leaves and the reference of the list it returns.

\* chromosome1[crossover_point:] = chromosome2[crossover_point:], chromosome1 returned
CrossoverInPlace(heap, ref1, ref2, crossover_point) ==
    [heap |-> [heap EXCEPT ![ref1] = Crossover(heap[ref1], heap[ref2], crossover_point)],
     ref |-> ref1]

\* chromosome1[:crossover_point] + chromosome2[crossover_point:]: each slice is a
\* new list, and so is their concatenation
CrossoverOnHeap(heap, ref1, ref2, crossover_point) ==
    LET left == Append(heap, SubSeq(heap[ref1], 1, crossover_point))
        right == Append(left, SubSeq(left[ref2], crossover_point + 1, Len(left[ref2])))
        joined == Append(right, right[Len(left)] \o right[Len(right)])
    IN  [heap |-> joined, ref |-> Len(joined)]

\* mutated_chromosome = [] is a new list, filled bit by bit from chromosome
MutationOnHeap(heap, ref, draws, chance) ==
    [heap |-> Append(heap, Mutation(heap[ref], draws, chance)),
     ref |-> Len(heap) + 1]

\* chromosomes of CHROMOSOME_SIZE genes, each WideGeneSize bits
WideChromosomes == [1..(CHROMOSOME_SIZE * WideGeneSize) -> Bit]

OpArguments ==
    [kind : {"crossover"}, chromosome1 : Chromosomes, chromosome2 : Chromosomes]
    \cup [kind : {"mutation"}, chromosome : Chromosomes, chance : Chances]
    \cup [kind : {"select"}, sorted_individuals : SortedLists]
    \cup [kind : {"decode"}, chromosome : WideChromosomes]
    \cup [kind : {"offspring"}, chromosome1 : Chromosomes, chromosome2 : Chromosomes]
    \cup {[kind |-> "evaluate", x |-> XOfRows(rows), y |-> YOfRows(rows),
           adjacency_matrix |-> a, chromosome |-> c] :
              rows \in TIME_FRAMES..(TIME_FRAMES + ExtraRows),
              a \in AdjacencyMatrices, c \in Chromosomes}
    \cup {[kind |-> "replace", table |-> t,
           individuals |-> CompleteIndividuals(t, parents), children |-> kids] :
              t \in DataContexts,
              parents \in [1..ReplaceLen -> InitialChromosomes],
              kids \in [1..ReplaceLen -> InitialChromosomes]}

InitOps ==
    /\ mseOf = <<>>
    /\ individuals = <<>>
    /\ sorted_individuals = <<>>
    /\ total_fitness = 0
    /\ children = <<>>
    /\ individual1_index = -1
    /\ individual2_index = -1
    /\ chromosome1 = <<>>
    /\ chromosome2 = <<>>
    /\ fittest_individual = <<>>
    /\ counter = 0
    /\ best_fitness = 0
    /\ best_index = 0
    /\ errors = <<>>
    /\ pc = "ops"
    /\ op = "none"
    /\ opArgs \in OpArguments
    /\ opResult = <<>>

ApplyCrossover ==
    /\ pc = "ops" /\ op = "none" /\ opArgs.kind = "crossover"
    /\ \E point \in 0..(ChromosomeLength - 1) :
           opResult' = [crossover_point |-> point,
                        offspring_chromosome |->
                            Crossover(opArgs.chromosome1, opArgs.chromosome2, point)]
    /\ op' = "crossover"
    /\ UNCHANGED <<popVars, runVars, opArgs>>

ApplyMutation ==
    /\ pc = "ops" /\ op = "none" /\ opArgs.kind = "mutation"
    /\ \E draws \in [1..ChromosomeLength -> BitDraws] :
           opResult' = [draws |-> draws,
                        mutated_chromosome |->
                            Mutation(opArgs.chromosome, draws, opArgs.chance)]
    /\ op' = "mutation"
    /\ UNCHANGED <<popVars, runVars, opArgs>>

ApplySelect ==
    /\ pc = "ops" /\ op = "none" /\ opArgs.kind = "select"
    /\ \E r \in 0..(RandDen - 1) :
           opResult' = [random_value |-> r,
                        selected_index |->
                            SelectRandomIndividual(opArgs.sorted_individuals,
                                SumFitness(opArgs.sorted_individuals), r)]
    /\ op' = "select"
    /\ UNCHANGED <<popVars, runVars, opArgs>>

\* the decoding loop of _get_complete_individual
ApplyDecode ==
    /\ pc = "ops" /\ op = "none" /\ opArgs.kind = "decode"
    /\ opResult' = [powers |-> PowersOf(opArgs.chromosome, WideGeneSize)]
    /\ op' = "decode"
    /\ UNCHANGED <<popVars, runVars, opArgs>>

\* the tail of run_single_iteration: the children completed, the union
\* sorted, its head kept (self.size is the length of self.individuals)
ApplyReplace ==
    /\ pc = "ops" /\ op = "none" /\ opArgs.kind = "replace"
    /\ \E new_individuals \in
            {SortedByFitness(opArgs.individuals
                             \o CompleteIndividuals(opArgs.table, opArgs.children))} :
           opResult' = [individuals |->
                           Truncate(new_individuals, Len(opArgs.individuals))]
    /\ op' = "replace"
    /\ UNCHANGED <<popVars, runVars, opArgs>>

\* lines 148-152 on list objects: the parents' chromosomes are the lists at
\* references 1 and 2
ApplyOffspring ==
    /\ pc = "ops" /\ op = "none" /\ opArgs.kind = "offspring"
    /\ \E point \in 0..(ChromosomeLength - 1),
          draws \in [1..ChromosomeLength -> MutationDraws] :
           LET crossed == CrossoverOnHeap(<<opArgs.chromosome1, opArgs.chromosome2>>,
                                          1, 2, point)
               mutated == MutationOnHeap(crossed.heap, crossed.ref, draws,
                                         MUTATION_CHANCE)
           IN  opResult' = [crossover_point |-> point, draws |-> draws,
                            heap |-> mutated.heap, ref |-> mutated.ref]
    /\ op' = "offspring"
    /\ UNCHANGED <<popVars, runVars, opArgs>>

\* _get_complete_individual up to the fit
ApplyEvaluate ==
    /\ pc = "ops" /\ op = "none" /\ opArgs.kind = "evaluate"
    /\ opResult' = Evaluate(opArgs.x, opArgs.y, opArgs.adjacency_matrix,
                            Powers(opArgs.chromosome))
    /\ op' = "evaluate"
    /\ UNCHANGED <<popVars, runVars, opArgs>>

NextOps ==
    \/ ApplyCrossover
    \/ ApplyMutation
    \/ ApplySelect
    \/ ApplyDecode
    \/ ApplyReplace
    \/ ApplyOffspring
    \/ ApplyEvaluate

SpecOps == InitOps /\ [][NextOps]_vars

---------------------------------------------------------------------------

Next == BeginIteration \/ SelectParents \/ FinishIteration \/ Terminate

Spec == Init /\ [][Next]_vars

\* a pass of the while loop whose two draws pick different indices
SelectDistinct ==
    \E r1 \in SelectDraws, r2 \in SelectDraws :
        /\ pc = "select"
        /\ SelectRandomIndividual(sorted_individuals, total_fitness, r1)
               # SelectRandomIndividual(sorted_individuals, total_fitness, r2)
        /\ SelectParentsWith(r1, r2)

\* The program runs on, and its draws are fair: while two different indices can
\* be drawn, they eventually are.
FairSpec ==
    /\ Spec
    /\ WF_vars(BeginIteration)
    /\ WF_vars(SelectDistinct)
    /\ WF_vars(FinishIteration)
    /\ WF_vars(Terminate)

---------------------------------------------------------------------------
(* Properties *)

MaxOf(S) == CHOOSE m \in S : \A x \in S : x <= m
MinOf(S) == CHOOSE m \in S : \A x \in S : m <= x
FitnessesOf(s) == {s[k].fitness : k \in 1..Len(s)}

\* run_single_iteration returns in this step
Returns == pc = "select" /\ pc' # "select"

\* C1: the fittest individual run_single_iteration returns is at least as fit
\* as every individual of the population before the call, and so at least as
\* fit as the one the previous call returned.
C1_BestNeverDecreases ==
    [][Returns =>
        /\ fittest_individual'.fitness >= MaxOf(FitnessesOf(individuals))
        /\ (fittest_individual # <<>> =>
                fittest_individual'.fitness >= fittest_individual.fitness)]_vars

\* a second or later generation returned a strictly fitter individual
C1_Witness ==
    /\ pc = "loop"
    /\ counter >= 2
    /\ best_index = counter

\* C2: the population holds exactly POPULATION individuals, after
\* construction and at every point of every generation.
C2_SizeConstant == Len(individuals) = POPULATION

\* a generation has replaced the population
C2_Witness == pc = "loop" /\ counter >= 2 /\ Len(individuals) = POPULATION

\* C3: the chromosomes crossed are those of the individuals the two draws
\* picked in sorted_individuals.
C3_ParentsAreTheSelected ==
    [][(pc = "select" /\ pc' = "select" /\ children' # children) =>
        /\ chromosome1' = sorted_individuals[individual1_index' + 1].chromosome
        /\ chromosome2' = sorted_individuals[individual2_index' + 1].chromosome]_vars

\* C4: an offspring is produced only from two different indices, and equal
\* draws produce none and leave the loop to draw again.
C4_DistinctParentIndices ==
    [][(pc = "select" /\ pc' = "select") =>
        /\ (children' # children => individual1_index' # individual2_index')
        /\ (individual1_index' = individual2_index' =>
                children' = children /\ NeedsChildren(children'))]_vars

\* both draws picked the same index and no offspring came of it
C4_Witness ==
    /\ pc = "select"
    /\ individual1_index >= 0
    /\ individual1_index = individual2_index
    /\ children = <<>>

\* fitness of indices 0..k
CumulativeFitness(s, k) == SumFitness(SubSeq(s, 1, k + 1))

\* the smallest index before the last whose cumulative fraction exceeds the
\* draw, the last index when there is none
FirstExceeding(s, total_f, r) ==
    LET hits == {k \in 0..(Len(s) - 2) :
                    FractionExceeds(CumulativeFitness(s, k), total_f, r)}
    IN IF hits = {} THEN Len(s) - 1 ELSE MinOf(hits)

\* C5: on the list and total of a generation, selection returns the smallest
\* index whose cumulative fitness fraction exceeds the draw (the last index
\* when none before it does), and some draw returns index 0.
C5_SelectContract ==
    pc = "select" =>
        /\ \A r \in 0..(RandDen - 1) :
               SelectRandomIndividual(sorted_individuals, total_fitness, r)
                   = FirstExceeding(sorted_individuals, total_fitness, r)
        /\ \E r \in 0..(RandDen - 1) :
               SelectRandomIndividual(sorted_individuals, total_fitness, r) = 0

FiniteFitness(s) == \A k \in 1..Len(s) : s[k].fitness # Infinity

LastImprovement(trace) ==
    MaxOf({0} \cup {g \in 1..Len(trace) : \A h \in 1..(g - 1) : trace[g] < trace[h]})

\* C7: the loop of run() is left exactly when TERMINATION_CONDITION
\* generations have run since the last improvement, and not before.
C7_StopsAtStagnation ==
    /\ pc = "done" =>
           /\ counter - best_index = TERMINATION_CONDITION
           /\ Len(errors) - LastImprovement(errors) = TERMINATION_CONDITION
    /\ pc = "loop" => Len(errors) - LastImprovement(errors) <= TERMINATION_CONDITION
    /\ pc \in {"loop", "select"} => counter - best_index <= TERMINATION_CONDITION

\* the loop was left after an improvement in a generation later than the first
C7_Witness == pc = "done" /\ best_index >= 2

\* C8: an individual of mse 0 raises no fault, and selection still finds two
\* different parents with it in the population.
C8_ZeroMseHandled ==
    /\ pc # "fault"
    /\ (pc = "select" /\ ~FiniteFitness(individuals)) =>
           \E r1, r2 \in 0..(RandDen - 1) :
               SelectRandomIndividual(sorted_individuals, total_fitness, r1)
                   # SelectRandomIndividual(sorted_individuals, total_fitness, r2)

\* C9: the offspring is as long as its parents, equal to parent 1 before the
\* crossover point and to parent 2 from it on.
C9_CrossoverBits ==
    op = "crossover" =>
        /\ Len(opResult.offspring_chromosome) = ChromosomeLength
        /\ \A k \in 0..(ChromosomeLength - 1) :
               opResult.offspring_chromosome[k + 1] =
                   IF k < opResult.crossover_point
                   THEN opArgs.chromosome1[k + 1]
                   ELSE opArgs.chromosome2[k + 1]

\* a crossover at the last legal point, of parents that differ in every bit
C9_Witness ==
    /\ op = "crossover"
    /\ opResult.crossover_point = ChromosomeLength - 1
    /\ \A k \in 1..ChromosomeLength : opArgs.chromosome1[k] # opArgs.chromosome2[k]

\* C10: a bit is flipped exactly when its draw is below the chance: never
\* with chance 0, always with chance 1.
C10_MutationFlips ==
    op = "mutation" =>
        /\ \A k \in 1..ChromosomeLength :
               (opResult.mutated_chromosome[k] = 1 - opArgs.chromosome[k])
                   <=> (opResult.draws[k] * opArgs.chance.den
                            < opArgs.chance.num * RandDen)
        /\ \A k \in 1..ChromosomeLength :
               opResult.mutated_chromosome[k] \in
                   {opArgs.chromosome[k], 1 - opArgs.chromosome[k]}
        /\ (opArgs.chance.num = 0 =>
                opResult.mutated_chromosome = opArgs.chromosome)
        /\ (opArgs.chance.num = opArgs.chance.den =>
                \A k \in 1..ChromosomeLength :
                    opResult.mutated_chromosome[k] = 1 - opArgs.chromosome[k])

\* a mutation with chance 0 whose draws are all 0
C10_Witness ==
    /\ op = "mutation"
    /\ opArgs.chance.num = 0
    /\ \A k \in 1..ChromosomeLength : opResult.draws[k] = 0

\* the value of the bits of gene i (1-based) read left to right, the leftmost
\* bit weighing most: Horner's rule
RECURSIVE MsbFirstValue(_, _, _, _)
MsbFirstValue(chromosome, i, n, gene_size) ==
    IF n = 0
    THEN 0
    ELSE 2 * MsbFirstValue(chromosome, i, n - 1, gene_size)
         + chromosome[(i - 1) * gene_size + n]

MinPower == POWER_RANGE[1] * Pow2(WideGeneSize)
MaxPower == POWER_RANGE[2] * Pow2(WideGeneSize)
StepOfPower == POWER_RANGE[2] - POWER_RANGE[1]

\* C11: every decoded power lies in the closed range [min_power, max_power];
\* decoding draws nothing, its result is a function of the chromosome alone.
C11_PowersInRange ==
    op = "decode" =>
        /\ DOMAIN opResult.powers = 1..CHROMOSOME_SIZE
        /\ \A i \in 1..CHROMOSOME_SIZE :
               /\ MinPower <= opResult.powers[i]
               /\ opResult.powers[i] <= MaxPower
C11_Witness ==
    /\ op = "decode"
    /\ opResult.powers[1] = MinPower
    /\ opResult.powers[2] = MaxPower - StepOfPower
    /\ opResult.powers[3] \notin {MinPower, MaxPower - StepOfPower}

\* C12: each gene is read as an unsigned integer, most significant bit first,
\* and its power is min_power + value * step with
\* step = (max_power - min_power) / 2^GENE_SIZE; the all-zero chromosome decodes
\* to min_power in every gene, the all-ones chromosome to max_power - step.
C12_DecodeMsbFirst ==
    op = "decode" =>
        /\ \A i \in 1..CHROMOSOME_SIZE :
               opResult.powers[i] =
                   MinPower + MsbFirstValue(opArgs.chromosome, i, WideGeneSize,
                                            WideGeneSize) * StepOfPower
        /\ (\A k \in DOMAIN opArgs.chromosome : opArgs.chromosome[k] = 0)
               => \A i \in 1..CHROMOSOME_SIZE : opResult.powers[i] = MinPower
        /\ (\A k \in DOMAIN opArgs.chromosome : opArgs.chromosome[k] = 1)
               => \A i \in 1..CHROMOSOME_SIZE :
                      opResult.powers[i] = MaxPower - StepOfPower
C12_Witness ==
    /\ op = "decode"
    /\ \A k \in DOMAIN opArgs.chromosome : opArgs.chromosome[k] = 1
    /\ \A i \in 1..CHROMOSOME_SIZE : opResult.powers[i] = MaxPower - StepOfPower

\* the old individuals in their order, then the children in creation order
Merged == opArgs.individuals \o CompleteIndividuals(opArgs.table, opArgs.children)

\* element a of Merged goes ahead of element b: fitter, or as fit and earlier
Ahead(a, b) ==
    \/ Merged[a].fitness > Merged[b].fitness
    \/ (Merged[a].fitness = Merged[b].fitness /\ a < b)

\* C13: the new population is the first `size` elements of the stable
\* descending-fitness sort of the old individuals (in their current order)
\* followed by the children (in creation order): every retained individual is
\* at least as fit as every discarded one, duplicates are kept, and on equal
\* fitness an existing individual stays ahead of a child.
C13_ElitistReplacement ==
    op = "replace" =>
        /\ Len(opResult.individuals) = Len(opArgs.individuals)
        /\ \E f \in [1..Len(opArgs.individuals) -> 1..Len(Merged)] :
               /\ \A p \in DOMAIN f : opResult.individuals[p] = Merged[f[p]]
               /\ \A p, q \in DOMAIN f : p < q => Ahead(f[p], f[q])
               /\ \A p \in DOMAIN f, j \in 1..Len(Merged) :
                      (\A q \in DOMAIN f : f[q] # j) => Ahead(f[p], j)
\* the first child is fitter than everyone and enters; the second ties with the
\* two old individuals, the first of which is retained and the child discarded
C13_Witness ==
    /\ op = "replace"
    /\ Merged[1].fitness = Merged[2].fitness
    /\ Merged[ReplaceLen + 1].fitness > Merged[1].fitness
    /\ Merged[ReplaceLen + 2].fitness = Merged[1].fitness
    /\ Merged[ReplaceLen + 2].chromosome # Merged[1].chromosome
    /\ opResult.individuals[1] = Merged[ReplaceLen + 1]
    /\ opResult.individuals[2] = Merged[1]

\* C14: crossover and mutation never edit a chromosome in place: producing an
\* offspring leaves both parents' chromosome lists as they were and returns a
\* list of its own, so the individuals that stay in the population keep their
\* chromosome (and the powers, mse and fitness computed from it).
C14_ParentsUntouched ==
    op = "offspring" =>
        /\ opResult.heap[1] = opArgs.chromosome1
        /\ opResult.heap[2] = opArgs.chromosome2
        /\ opResult.ref \notin {1, 2}
        /\ opResult.heap[opResult.ref] =
               Mutation(Crossover(opArgs.chromosome1, opArgs.chromosome2,
                                  opResult.crossover_point),
                        opResult.draws, MUTATION_CHANCE)
\* an offspring that differs from both parents, crossed inside the chromosome
\* and with a bit flipped
C14_Witness ==
    /\ op = "offspring"
    /\ opResult.crossover_point > 0
    /\ \E k \in 1..ChromosomeLength : DrawBelow(opResult.draws[k], MUTATION_CHANCE)
    /\ opResult.heap[opResult.ref] \notin {opArgs.chromosome1, opArgs.chromosome2}
    /\ opArgs.chromosome1 # opArgs.chromosome2

\* the width of the design block of node i
BlockWidth(i) == Len(opResult.theta_list[i][1])

\* the nodes j with A[j,i] != 0
IncomingOf(i) == {j \in 1..NUMBER_OF_NODES : opArgs.adjacency_matrix[j][i] # 0}

\* the sum over the nodes j of `from` of A[j,i] * X[t,i]^powers[1] * X[t,j]^powers[2]
CouplingSum(i, t, from) ==
    SumOver(from,
            [j \in 1..NUMBER_OF_NODES |->
                opArgs.adjacency_matrix[j][i]
                    * Raise(opArgs.x[t][i], Powers(opArgs.chromosome)[2])
                    * Raise(opArgs.x[t][j], Powers(opArgs.chromosome)[3])])

\* C15: for every node i and every adjacency matrix the block of i has the
\* coupling column exactly if some node j has A[j,i] != 0, the column being the
\* sum over all such j; a node with no such j gets a block of two columns, and
\* the evaluation does not fail.
C15_CouplingColumn ==
    op = "evaluate" =>
        /\ \A i \in 1..NUMBER_OF_NODES :
               /\ BlockWidth(i) = (IF IncomingOf(i) = {} THEN 2 ELSE 3)
               /\ IncomingOf(i) # {} =>
                      \A t \in 1..TIME_FRAMES :
                          opResult.theta_list[i][t][3] = CouplingSum(i, t, IncomingOf(i))
        /\ opResult.outcome # "ValueError"

\* C16: whatever the adjacency matrix, also when some nodes have an incoming
\* neighbour and others none, the blocks that are stacked have one column
\* count, and the design matrix has that count in every row.
C16_OneColumnCount ==
    op = "evaluate" =>
        /\ \A a, b \in 1..NUMBER_OF_NODES : BlockWidth(a) = BlockWidth(b)
        /\ opResult.outcome # "ValueError"
        /\ \A k, l \in DOMAIN opResult.theta :
               Len(opResult.theta[k]) = Len(opResult.theta[l])

\* C17: for x and y of the same shape with at least TIME_FRAMES rows, the
\* stacked targets are the first TIME_FRAMES samples of each node's column of
\* y, node after node as the blocks are: NUMBER_OF_NODES * TIME_FRAMES entries,
\* as many as the design matrix has rows, entry k belonging to row k.
C17_TargetsMatchRows ==
    (op = "evaluate" /\ opResult.outcome # "ValueError") =>
        /\ Len(opResult.stacked_y) = NUMBER_OF_NODES * TIME_FRAMES
        /\ Len(opResult.stacked_y) = Len(opResult.theta)
        /\ \A n \in 1..NUMBER_OF_NODES, t \in 1..TIME_FRAMES :
               opResult.stacked_y[(n - 1) * TIME_FRAMES + t] = opArgs.y[t][n]

NonIncreasing(s) == \A k \in 1..(Len(s) - 1) : s[k].fitness >= s[k + 1].fitness

\* C18: once run_single_iteration has returned, the population list is in
\* non-increasing fitness order with the fittest individual at index 0, so from
\* the second generation on the sorted list and the population list are the
\* same list and an index denotes the same individual in both.  (The list
\* built at construction has no such order: Init admits any order.)
C18_PopulationStaysSorted ==
    /\ (counter >= 2 \/ (counter = 1 /\ pc # "select")) =>
           /\ NonIncreasing(individuals)
           /\ individuals[1].fitness = MaxOf(FitnessesOf(individuals))
    /\ (pc = "select" /\ counter >= 2) => sorted_individuals = individuals
\* the second generation at its selection, the population holding different
\* fitnesses
C18_Witness ==
    /\ pc = "select"
    /\ counter = 2
    /\ sorted_individuals = individuals
    /\ individuals[1].fitness > individuals[POPULATION].fitness

\* C20: when the driver loop has ended, the individual reported, the fittest of
\* the last generation, has the best fitness ever recorded, and errors holds
\* one entry for each generation that ran.
C20_ReportedIsBest ==
    pc = "done" =>
        /\ fittest_individual = individuals[1]
        /\ fittest_individual.fitness = best_fitness
        /\ Len(errors) = counter
\* ended on stagnation after an improvement in a later generation
C20_Witness ==
    /\ pc = "done"
    /\ best_index > 1
    /\ counter = best_index + TERMINATION_CONDITION
    /\ Len(errors) = counter
    /\ fittest_individual.fitness = best_fitness

\* C19: the loop of run() does not go on forever, provided every generation
\* returns: the best fitness can rise only finitely often, and
\* TERMINATION_CONDITION generations after its last rise the loop is left (or
\* the run has been aborted by the fault of C8).  No run is cut off by the cap
\* on counter.
C19_LoopTerminates ==
    /\ []((pc = "loop" /\ KeepsRunning(counter, best_index)) => counter < MaxGenerations)
    /\ ([]<>(pc # "select")) => <>(pc \in {"done", "fault"})
\* the loop left after the best fitness rose twice
C19_Witness ==
    /\ pc = "done"
    /\ best_index > 1
    /\ Cardinality({errors[g] : g \in 1..Len(errors)}) = 2

====
